---- MODULE Spec2Model ----
(***************************************************************************)
(* Model of the Bible data-preparation scripts:                            *)
(*   scripts/process_bible_json.py   (shapes a/b, command with --version)  *)
(*   scripts/process_your_bibles.py  (shape c, batch driver)               *)
(* Strings are TLA+ strings; characters are strings of length one.  Only   *)
(* ASCII letters, digits, '_', punctuation and the whitespace characters   *)
(* space, tab, newline and carriage return are distinguished.              *)
(***************************************************************************)
EXTENDS Integers, Sequences, FiniteSets, TLC

(***************************************************************************)
(* Bounds of the model                                                     *)
(***************************************************************************)
MaxNameLen == 4
MaxVerseLen == 5
MaxCalls == 2
MaxBooks == 2
MaxChapters == 2

(***************************************************************************)
(* Python string primitives used by the scripts                            *)
(***************************************************************************)
ascii_lowercase == "abcdefghijklmnopqrstuvwxyz"
ascii_uppercase == "ABCDEFGHIJKLMNOPQRSTUVWXYZ"
digits == "0123456789"

CharAt(s, i) == SubSeq(s, i, i)

Contains(s, c) == \E i \in 1..Len(s) : CharAt(s, i) = c

Chars(s) == {CharAt(s, i) : i \in 1..Len(s)}

LowercaseChars == Chars(ascii_lowercase)

UppercaseChars == Chars(ascii_uppercase)

DigitChars == Chars(digits)

isspace(c) == c \in {" ", "\t", "\n", "\r"}

isdigit(c) == c \in DigitChars

\* \w of the re module: letters, digits and the underscore
isword(c) == c \in LowercaseChars \/ c \in UppercaseChars \/ c \in DigitChars \/ c = "_"

LowerOf == [c \in UppercaseChars |->
               CharAt(ascii_lowercase, CHOOSE i \in 1..26 : CharAt(ascii_uppercase, i) = c)]

UpperOf == [c \in LowercaseChars |->
               CharAt(ascii_uppercase, CHOOSE i \in 1..26 : CharAt(ascii_lowercase, i) = c)]

lower_char(c) == IF c \in UppercaseChars THEN LowerOf[c] ELSE c

upper_char(c) == IF c \in LowercaseChars THEN UpperOf[c] ELSE c

RECURSIVE str_lower(_)
str_lower(s) == IF s = "" THEN "" ELSE lower_char(Head(s)) \o str_lower(Tail(s))

RECURSIVE str_upper(_)
str_upper(s) == IF s = "" THEN "" ELSE upper_char(Head(s)) \o str_upper(Tail(s))

RECURSIVE str_lstrip(_)
str_lstrip(s) == IF s # "" /\ isspace(Head(s)) THEN str_lstrip(Tail(s)) ELSE s

RECURSIVE str_rstrip(_)
str_rstrip(s) ==
    IF s # "" /\ isspace(CharAt(s, Len(s))) THEN str_rstrip(SubSeq(s, 1, Len(s) - 1)) ELSE s

str_strip(s) == str_rstrip(str_lstrip(s))

RECURSIVE str_replace(_, _, _)
str_replace(s, old, new) ==
    IF s = "" THEN ""
    ELSE (IF Head(s) = old THEN new ELSE Head(s)) \o str_replace(Tail(s), old, new)

\* variant: the underscore is taken for punctuation, re.sub(r'[^a-z0-9\s]', '', s)
RECURSIVE re_sub_non_alphanumeric(_)
re_sub_non_alphanumeric(s) ==
    IF s = "" THEN ""
    ELSE (IF (isword(Head(s)) /\ Head(s) # "_") \/ isspace(Head(s)) THEN Head(s) ELSE "")
         \o re_sub_non_alphanumeric(Tail(s))

\* re.sub(r'[^\w\s]', '', s)
RECURSIVE re_sub_punctuation(_)
re_sub_punctuation(s) ==
    IF s = "" THEN ""
    ELSE (IF isword(Head(s)) \/ isspace(Head(s)) THEN Head(s) ELSE "")
         \o re_sub_punctuation(Tail(s))

\* re.sub(r'\s+', ' ', s)
RECURSIVE re_sub_whitespace(_)
re_sub_whitespace(s) ==
    IF s = "" THEN ""
    ELSE IF isspace(Head(s)) THEN " " \o re_sub_whitespace(str_lstrip(Tail(s)))
    ELSE Head(s) \o re_sub_whitespace(Tail(s))

RECURSIVE LeadingDigits(_)
LeadingDigits(s) == IF s # "" /\ isdigit(Head(s)) THEN 1 + LeadingDigits(Tail(s)) ELSE 0

RECURSIVE LeadingSpaces(_)
LeadingSpaces(s) == IF s # "" /\ isspace(Head(s)) THEN 1 + LeadingSpaces(Tail(s)) ELSE 0

\* re.sub(r'^\d+\s+', '', s)
re_sub_verse_number(s) ==
    LET d == LeadingDigits(s)
        w == LeadingSpaces(SubSeq(s, d + 1, Len(s)))
    IN  IF d >= 1 /\ w >= 1 THEN SubSeq(s, d + w + 1, Len(s)) ELSE s

(***************************************************************************)
(* Alias tables                                                            *)
(***************************************************************************)
BOOK_NAME_MAP ==
    ("genesis" :> "genesis")
 @@ ("gen" :> "genesis")
 @@ ("exodus" :> "exodus")
 @@ ("exo" :> "exodus")
 @@ ("leviticus" :> "leviticus")
 @@ ("lev" :> "leviticus")
 @@ ("numbers" :> "numbers")
 @@ ("num" :> "numbers")
 @@ ("deuteronomy" :> "deuteronomy")
 @@ ("deu" :> "deuteronomy")
 @@ ("deut" :> "deuteronomy")
 @@ ("joshua" :> "joshua")
 @@ ("jos" :> "joshua")
 @@ ("josh" :> "joshua")
 @@ ("judges" :> "judges")
 @@ ("jdg" :> "judges")
 @@ ("judg" :> "judges")
 @@ ("ruth" :> "ruth")
 @@ ("rut" :> "ruth")
 @@ ("1 samuel" :> "1_samuel")
 @@ ("1samuel" :> "1_samuel")
 @@ ("1sam" :> "1_samuel")
 @@ ("1 sam" :> "1_samuel")
 @@ ("2 samuel" :> "2_samuel")
 @@ ("2samuel" :> "2_samuel")
 @@ ("2sam" :> "2_samuel")
 @@ ("2 sam" :> "2_samuel")
 @@ ("1 kings" :> "1_kings")
 @@ ("1kings" :> "1_kings")
 @@ ("1ki" :> "1_kings")
 @@ ("1 ki" :> "1_kings")
 @@ ("2 kings" :> "2_kings")
 @@ ("2kings" :> "2_kings")
 @@ ("2ki" :> "2_kings")
 @@ ("2 ki" :> "2_kings")
 @@ ("1 chronicles" :> "1_chronicles")
 @@ ("1chronicles" :> "1_chronicles")
 @@ ("1ch" :> "1_chronicles")
 @@ ("1 ch" :> "1_chronicles")
 @@ ("2 chronicles" :> "2_chronicles")
 @@ ("2chronicles" :> "2_chronicles")
 @@ ("2ch" :> "2_chronicles")
 @@ ("2 ch" :> "2_chronicles")
 @@ ("ezra" :> "ezra")
 @@ ("ezr" :> "ezra")
 @@ ("nehemiah" :> "nehemiah")
 @@ ("neh" :> "nehemiah")
 @@ ("esther" :> "esther")
 @@ ("est" :> "esther")
 @@ ("job" :> "job")
 @@ ("psalms" :> "psalms")
 @@ ("psalm" :> "psalms")
 @@ ("psa" :> "psalms")
 @@ ("ps" :> "psalms")
 @@ ("proverbs" :> "proverbs")
 @@ ("pro" :> "proverbs")
 @@ ("prov" :> "proverbs")
 @@ ("ecclesiastes" :> "ecclesiastes")
 @@ ("ecc" :> "ecclesiastes")
 @@ ("eccl" :> "ecclesiastes")
 @@ ("song of solomon" :> "song_of_solomon")
 @@ ("song of songs" :> "song_of_solomon")
 @@ ("song" :> "song_of_solomon")
 @@ ("sos" :> "song_of_solomon")
 @@ ("isaiah" :> "isaiah")
 @@ ("isa" :> "isaiah")
 @@ ("jeremiah" :> "jeremiah")
 @@ ("jer" :> "jeremiah")
 @@ ("lamentations" :> "lamentations")
 @@ ("lam" :> "lamentations")
 @@ ("ezekiel" :> "ezekiel")
 @@ ("eze" :> "ezekiel")
 @@ ("ezek" :> "ezekiel")
 @@ ("daniel" :> "daniel")
 @@ ("dan" :> "daniel")
 @@ ("hosea" :> "hosea")
 @@ ("hos" :> "hosea")
 @@ ("joel" :> "joel")
 @@ ("joe" :> "joel")
 @@ ("amos" :> "amos")
 @@ ("amo" :> "amos")
 @@ ("obadiah" :> "obadiah")
 @@ ("oba" :> "obadiah")
 @@ ("jonah" :> "jonah")
 @@ ("jon" :> "jonah")
 @@ ("micah" :> "micah")
 @@ ("mic" :> "micah")
 @@ ("nahum" :> "nahum")
 @@ ("nah" :> "nahum")
 @@ ("habakkuk" :> "habakkuk")
 @@ ("hab" :> "habakkuk")
 @@ ("zephaniah" :> "zephaniah")
 @@ ("zep" :> "zephaniah")
 @@ ("zeph" :> "zephaniah")
 @@ ("haggai" :> "haggai")
 @@ ("hag" :> "haggai")
 @@ ("zechariah" :> "zechariah")
 @@ ("zec" :> "zechariah")
 @@ ("zech" :> "zechariah")
 @@ ("malachi" :> "malachi")
 @@ ("mal" :> "malachi")
 @@ ("matthew" :> "matthew")
 @@ ("mat" :> "matthew")
 @@ ("matt" :> "matthew")
 @@ ("mark" :> "mark")
 @@ ("mar" :> "mark")
 @@ ("mk" :> "mark")
 @@ ("luke" :> "luke")
 @@ ("luk" :> "luke")
 @@ ("lk" :> "luke")
 @@ ("john" :> "john")
 @@ ("joh" :> "john")
 @@ ("jn" :> "john")
 @@ ("acts" :> "acts")
 @@ ("act" :> "acts")
 @@ ("romans" :> "romans")
 @@ ("rom" :> "romans")
 @@ ("1 corinthians" :> "1_corinthians")
 @@ ("1corinthians" :> "1_corinthians")
 @@ ("1cor" :> "1_corinthians")
 @@ ("1 cor" :> "1_corinthians")
 @@ ("2 corinthians" :> "2_corinthians")
 @@ ("2corinthians" :> "2_corinthians")
 @@ ("2cor" :> "2_corinthians")
 @@ ("2 cor" :> "2_corinthians")
 @@ ("galatians" :> "galatians")
 @@ ("gal" :> "galatians")
 @@ ("ephesians" :> "ephesians")
 @@ ("eph" :> "ephesians")
 @@ ("philippians" :> "philippians")
 @@ ("phi" :> "philippians")
 @@ ("phil" :> "philippians")
 @@ ("colossians" :> "colossians")
 @@ ("col" :> "colossians")
 @@ ("1 thessalonians" :> "1_thessalonians")
 @@ ("1thessalonians" :> "1_thessalonians")
 @@ ("1th" :> "1_thessalonians")
 @@ ("1 th" :> "1_thessalonians")
 @@ ("2 thessalonians" :> "2_thessalonians")
 @@ ("2thessalonians" :> "2_thessalonians")
 @@ ("2th" :> "2_thessalonians")
 @@ ("2 th" :> "2_thessalonians")
 @@ ("1 timothy" :> "1_timothy")
 @@ ("1timothy" :> "1_timothy")
 @@ ("1ti" :> "1_timothy")
 @@ ("1 ti" :> "1_timothy")
 @@ ("2 timothy" :> "2_timothy")
 @@ ("2timothy" :> "2_timothy")
 @@ ("2ti" :> "2_timothy")
 @@ ("2 ti" :> "2_timothy")
 @@ ("titus" :> "titus")
 @@ ("tit" :> "titus")
 @@ ("philemon" :> "philemon")
 @@ ("phm" :> "philemon")
 @@ ("phlm" :> "philemon")
 @@ ("hebrews" :> "hebrews")
 @@ ("heb" :> "hebrews")
 @@ ("james" :> "james")
 @@ ("jas" :> "james")
 @@ ("jam" :> "james")
 @@ ("1 peter" :> "1_peter")
 @@ ("1peter" :> "1_peter")
 @@ ("1pe" :> "1_peter")
 @@ ("1 pe" :> "1_peter")
 @@ ("2 peter" :> "2_peter")
 @@ ("2peter" :> "2_peter")
 @@ ("2pe" :> "2_peter")
 @@ ("2 pe" :> "2_peter")
 @@ ("1 john" :> "1_john")
 @@ ("1john" :> "1_john")
 @@ ("1jo" :> "1_john")
 @@ ("1 jo" :> "1_john")
 @@ ("2 john" :> "2_john")
 @@ ("2john" :> "2_john")
 @@ ("2jo" :> "2_john")
 @@ ("2 jo" :> "2_john")
 @@ ("3 john" :> "3_john")
 @@ ("3john" :> "3_john")
 @@ ("3jo" :> "3_john")
 @@ ("3 jo" :> "3_john")
 @@ ("jude" :> "jude")
 @@ ("jud" :> "jude")
 @@ ("revelation" :> "revelation")
 @@ ("rev" :> "revelation")

USER_BOOK_NAME_MAP ==
    ("genesis" :> "genesis")
 @@ ("exodus" :> "exodus")
 @@ ("leviticus" :> "leviticus")
 @@ ("numbers" :> "numbers")
 @@ ("deuteronomy" :> "deuteronomy")
 @@ ("joshua" :> "joshua")
 @@ ("judges" :> "judges")
 @@ ("ruth" :> "ruth")
 @@ ("1 samuel" :> "1_samuel")
 @@ ("2 samuel" :> "2_samuel")
 @@ ("1 kings" :> "1_kings")
 @@ ("2 kings" :> "2_kings")
 @@ ("1 chronicles" :> "1_chronicles")
 @@ ("2 chronicles" :> "2_chronicles")
 @@ ("ezra" :> "ezra")
 @@ ("nehemiah" :> "nehemiah")
 @@ ("esther" :> "esther")
 @@ ("job" :> "job")
 @@ ("psalm" :> "psalms")
 @@ ("psalms" :> "psalms")
 @@ ("proverbs" :> "proverbs")
 @@ ("ecclesiastes" :> "ecclesiastes")
 @@ ("song of solomon" :> "song_of_solomon")
 @@ ("isaiah" :> "isaiah")
 @@ ("jeremiah" :> "jeremiah")
 @@ ("lamentations" :> "lamentations")
 @@ ("ezekiel" :> "ezekiel")
 @@ ("daniel" :> "daniel")
 @@ ("hosea" :> "hosea")
 @@ ("joel" :> "joel")
 @@ ("amos" :> "amos")
 @@ ("obadiah" :> "obadiah")
 @@ ("jonah" :> "jonah")
 @@ ("micah" :> "micah")
 @@ ("nahum" :> "nahum")
 @@ ("habakkuk" :> "habakkuk")
 @@ ("zephaniah" :> "zephaniah")
 @@ ("haggai" :> "haggai")
 @@ ("zechariah" :> "zechariah")
 @@ ("malachi" :> "malachi")
 @@ ("matthew" :> "matthew")
 @@ ("mark" :> "mark")
 @@ ("luke" :> "luke")
 @@ ("john" :> "john")
 @@ ("acts" :> "acts")
 @@ ("romans" :> "romans")
 @@ ("1 corinthians" :> "1_corinthians")
 @@ ("2 corinthians" :> "2_corinthians")
 @@ ("galatians" :> "galatians")
 @@ ("ephesians" :> "ephesians")
 @@ ("philippians" :> "philippians")
 @@ ("colossians" :> "colossians")
 @@ ("1 thessalonians" :> "1_thessalonians")
 @@ ("2 thessalonians" :> "2_thessalonians")
 @@ ("1 timothy" :> "1_timothy")
 @@ ("2 timothy" :> "2_timothy")
 @@ ("titus" :> "titus")
 @@ ("philemon" :> "philemon")
 @@ ("hebrews" :> "hebrews")
 @@ ("james" :> "james")
 @@ ("1 peter" :> "1_peter")
 @@ ("2 peter" :> "2_peter")
 @@ ("1 john" :> "1_john")
 @@ ("2 john" :> "2_john")
 @@ ("3 john" :> "3_john")
 @@ ("jude" :> "jude")
 @@ ("revelation" :> "revelation")

(***************************************************************************)
(* normalize_book_name and clean_verse_text of the two scripts             *)
(***************************************************************************)
\* variant: the fallback returns the normalized name with its spaces
normalize_book_name_keeps_spaces(book_name) ==
    LET normalized == re_sub_whitespace(re_sub_punctuation(str_strip(str_lower(book_name))))
    IN  IF normalized \in DOMAIN BOOK_NAME_MAP
        THEN BOOK_NAME_MAP[normalized]
        ELSE normalized

normalize_book_name(book_name) ==
    LET normalized == re_sub_whitespace(re_sub_punctuation(str_strip(str_lower(book_name))))
    IN  IF normalized \in DOMAIN BOOK_NAME_MAP
        THEN BOOK_NAME_MAP[normalized]
        ELSE str_replace(normalized, " ", "_")

\* variant: the name is not lowercased before the lookup
user_normalize_book_name_no_lower(book_name) ==
    LET normalized == re_sub_whitespace(re_sub_punctuation(str_strip(book_name)))
    IN  IF normalized \in DOMAIN USER_BOOK_NAME_MAP
        THEN USER_BOOK_NAME_MAP[normalized]
        ELSE str_replace(normalized, " ", "_")

user_normalize_book_name(book_name) ==
    LET normalized == re_sub_whitespace(re_sub_punctuation(str_strip(str_lower(book_name))))
    IN  IF normalized \in DOMAIN USER_BOOK_NAME_MAP
        THEN USER_BOOK_NAME_MAP[normalized]
        ELSE str_replace(normalized, " ", "_")

clean_verse_text(verse_text) ==
    str_strip(re_sub_whitespace(re_sub_verse_number(verse_text)))

user_clean_verse_text(verse_text) ==
    str_strip(re_sub_whitespace(str_replace(verse_text, "\n", " ")))

(***************************************************************************)
(* JSON documents as json.load returns them.  A value carries its Python   *)
(* type; a dict is the sequence of its <<key, value>> items in insertion   *)
(* order, with distinct keys.  None is JNull.                              *)
(***************************************************************************)
JNull == [t |-> "null"]

JInt(n) == [t |-> "int", v |-> n]

JStr(s) == [t |-> "str", v |-> s]

JList(items) == [t |-> "list", v |-> items]

JDict(items) == [t |-> "dict", v |-> items]

\* Python truth value of a JSON value
Truthy(x) ==
    CASE x.t = "null" -> FALSE
      [] x.t = "int"  -> x.v # 0
      [] x.t = "str"  -> x.v # ""
      [] OTHER        -> x.v # <<>>

\* a or b
py_or(a, b) == IF Truthy(a) THEN a ELSE b

\* operations on a dict held as a sequence of items
dict_keys(d) == {d[i][1] : i \in DOMAIN d}

dict_index(d, k) == CHOOSE i \in DOMAIN d : d[i][1] = k

dict_at(d, k) == d[dict_index(d, k)][2]

\* d[k] = v : an existing key keeps its position
dict_set(d, k, v) ==
    IF k \in dict_keys(d) THEN [d EXCEPT ![dict_index(d, k)] = <<k, v>>]
    ELSE Append(d, <<k, v>>)

\* x.get(k) on a JSON dict
json_get(x, k) == IF k \in dict_keys(x.v) THEN dict_at(x.v, k) ELSE JNull

\* int(s) on a string of decimal digits (surrounding whitespace allowed)
RECURSIVE DigitsValue(_)
DigitsValue(s) ==
    IF s = "" THEN 0
    ELSE 10 * DigitsValue(SubSeq(s, 1, Len(s) - 1))
         + (CHOOSE n \in 0..9 : CharAt(digits, n + 1) = CharAt(s, Len(s)))

IsDecimal(s) == s # "" /\ \A i \in 1..Len(s) : isdigit(CharAt(s, i))

\* int(x) succeeds
int_ok(x) ==
    \/ x.t = "int"
    \/ x.t = "str" /\ IsDecimal(str_strip(x.v))

py_int(x) == IF x.t = "int" THEN x.v ELSE DigitsValue(str_strip(x.v))

(***************************************************************************)
(* process_bible_json.py : parse_bible_json, the body of the loops         *)
(***************************************************************************)
\* verses = chapter.get('verses') or chapter.get('verse') or []
\* if not isinstance(verses, list): verses = [verses]
chapter_verses(chapter) ==
    LET verses == py_or(py_or(json_get(chapter, "verses"), json_get(chapter, "verse")), JList(<<>>))
    IN  IF verses.t = "list" THEN verses.v ELSE <<verses>>

\* [clean_verse_text(v) for v in verses if v]
RECURSIVE cleaned_verses(_)
cleaned_verses(verses) ==
    IF verses = <<>> THEN <<>>
    ELSE IF Truthy(Head(verses))
         THEN <<clean_verse_text(Head(verses).v)>> \o cleaned_verses(Tail(verses))
         ELSE cleaned_verses(Tail(verses))

\* re.sub raises TypeError on a truthy verse that is not a string
verses_ok(verses) == \A i \in DOMAIN verses : Truthy(verses[i]) => verses[i].t = "str"

chapter_number(chapter) ==
    py_or(py_or(py_or(json_get(chapter, "chapter"), json_get(chapter, "number")),
                json_get(chapter, "chapterNumber")),
          json_get(chapter, "id"))

\* for chapter in chapters: ...   (stored is bible_data[normalized_name])
RECURSIVE parse_chapters(_, _)
parse_chapters(chapters, stored) ==
    IF chapters = <<>> THEN [raised |-> "", chapters |-> stored]
    ELSE LET chapter == Head(chapters) IN
         IF chapter.t # "dict" THEN [raised |-> "AttributeError", chapters |-> stored]
         ELSE LET chapter_num == chapter_number(chapter) IN
              IF chapter_num.t = "null" THEN parse_chapters(Tail(chapters), stored)
              ELSE IF chapter_num.t \notin {"int", "str"}
                   THEN [raised |-> "TypeError", chapters |-> stored]
              ELSE IF ~int_ok(chapter_num)
                   THEN [raised |-> "ValueError", chapters |-> stored]
              ELSE LET verses == chapter_verses(chapter) IN
                   IF ~verses_ok(verses) THEN [raised |-> "TypeError", chapters |-> stored]
                   ELSE LET cleaned == cleaned_verses(verses) IN
                        parse_chapters(Tail(chapters),
                                       IF cleaned # <<>>
                                       THEN dict_set(stored, py_int(chapter_num), cleaned)
                                       ELSE stored)

book_name_of(book) ==
    py_or(py_or(json_get(book, "book"), json_get(book, "name")), json_get(book, "bookName"))

\* chapters = book.get('chapters') or book.get('chapter') or []
\* if not isinstance(chapters, list): chapters = [chapters]
book_chapters(book) ==
    LET chapters == py_or(py_or(json_get(book, "chapters"), json_get(book, "chapter")), JList(<<>>))
    IN  IF chapters.t = "list" THEN chapters.v ELSE <<chapters>>

\* variant: the chapters of a book are added to those already held for its id
parse_book_merges(data, book) ==
    IF book.t # "dict" THEN [raised |-> "AttributeError", bible_data |-> data]
    ELSE LET book_name == book_name_of(book) IN
         IF ~Truthy(book_name) THEN [raised |-> "", bible_data |-> data]
         ELSE IF book_name.t # "str" THEN [raised |-> "AttributeError", bible_data |-> data]
         ELSE LET normalized_name == normalize_book_name(book_name.v)
                  held == IF normalized_name \in dict_keys(data)
                          THEN dict_at(data, normalized_name) ELSE <<>>
                  r == parse_chapters(book_chapters(book), held)
              IN  [raised |-> r.raised,
                   bible_data |-> dict_set(data, normalized_name, r.chapters)]

\* variant: a book without a name ends the parse with an error
parse_book_rejects_nameless(data, book) ==
    IF book.t # "dict" THEN [raised |-> "AttributeError", bible_data |-> data]
    ELSE LET book_name == book_name_of(book) IN
         IF ~Truthy(book_name) THEN [raised |-> "ValueError", bible_data |-> data]
         ELSE IF book_name.t # "str" THEN [raised |-> "AttributeError", bible_data |-> data]
         ELSE LET normalized_name == normalize_book_name(book_name.v)
                  r == parse_chapters(book_chapters(book), <<>>)
              IN  [raised |-> r.raised,
                   bible_data |-> dict_set(data, normalized_name, r.chapters)]

\* variant: a book is entered in the structure only with its first stored chapter
parse_book_drops_empty(data, book) ==
    IF book.t # "dict" THEN [raised |-> "AttributeError", bible_data |-> data]
    ELSE LET book_name == book_name_of(book) IN
         IF ~Truthy(book_name) THEN [raised |-> "", bible_data |-> data]
         ELSE IF book_name.t # "str" THEN [raised |-> "AttributeError", bible_data |-> data]
         ELSE LET normalized_name == normalize_book_name(book_name.v)
                  r == parse_chapters(book_chapters(book), <<>>)
              IN  [raised |-> r.raised,
                   bible_data |-> IF r.chapters = <<>> /\ normalized_name \notin dict_keys(data)
                                  THEN data
                                  ELSE dict_set(data, normalized_name, r.chapters)]

\* one iteration of `for book in books`
parse_book(data, book) ==
    IF book.t # "dict" THEN [raised |-> "AttributeError", bible_data |-> data]
    ELSE LET book_name == book_name_of(book) IN
         IF ~Truthy(book_name) THEN [raised |-> "", bible_data |-> data]
         ELSE IF book_name.t # "str" THEN [raised |-> "AttributeError", bible_data |-> data]
         ELSE LET normalized_name == normalize_book_name(book_name.v)
                  r == parse_chapters(book_chapters(book), <<>>)
              IN  [raised |-> r.raised,
                   bible_data |-> dict_set(data, normalized_name, r.chapters)]

(***************************************************************************)
(* process_your_bibles.py : parse_user_bible_json, the body of the loops   *)
(***************************************************************************)
\* variant: sorted(verses.keys()), the keys compared as strings
RECURSIVE StrLessEq(_, _)
StrLessEq(a, b) ==
    IF a = "" THEN TRUE
    ELSE IF b = "" THEN FALSE
    ELSE IF Head(a) = Head(b) THEN StrLessEq(Tail(a), Tail(b))
    ELSE DigitsValue(Head(a)) < DigitsValue(Head(b))

RECURSIVE sorted_as_strings(_)
sorted_as_strings(keys) ==
    IF keys = <<>> THEN <<>>
    ELSE LET m == CHOOSE i \in DOMAIN keys :
                      /\ \A j \in DOMAIN keys : StrLessEq(keys[i], keys[j])
                      /\ \A j \in 1..(i - 1) : keys[j] # keys[i]
         IN  <<keys[m]>> \o sorted_as_strings(SubSeq(keys, 1, m - 1) \o SubSeq(keys, m + 1, Len(keys)))

\* sorted(verses.keys(), key=int): a stable sort of the keys, given in insertion order
RECURSIVE sorted_by_int(_)
sorted_by_int(keys) ==
    IF keys = <<>> THEN <<>>
    ELSE LET val(i) == DigitsValue(str_strip(keys[i]))
             m == CHOOSE i \in DOMAIN keys :
                      /\ \A j \in DOMAIN keys : val(i) <= val(j)
                      /\ \A j \in 1..(i - 1) : val(j) # val(i)
         IN  <<keys[m]>> \o sorted_by_int(SubSeq(keys, 1, m - 1) \o SubSeq(keys, m + 1, Len(keys)))

\* list(d.keys())
dict_key_list(d) == [i \in DOMAIN d |-> d[i][1]]

\* for verse_num in sorted(verses.keys(), key=int): ... verse_list.append(cleaned_text)
RECURSIVE user_verse_list(_, _)
user_verse_list(verses, order) ==
    IF order = <<>> THEN <<>>
    ELSE LET cleaned_text == user_clean_verse_text(dict_at(verses, Head(order)).v)
         IN  (IF cleaned_text # "" THEN <<cleaned_text>> ELSE <<>>)
             \o user_verse_list(verses, Tail(order))

\* for chapter_num_str, verses in chapters.items(): ...
RECURSIVE user_parse_chapters(_, _)
user_parse_chapters(chapters, stored) ==
    IF chapters = <<>> THEN [raised |-> "", chapters |-> stored]
    ELSE LET chapter_num_str == Head(chapters)[1]
             verses == Head(chapters)[2]
         IN  IF ~int_ok(JStr(chapter_num_str)) THEN [raised |-> "ValueError", chapters |-> stored]
             ELSE IF verses.t # "dict" THEN user_parse_chapters(Tail(chapters), stored)
             ELSE IF \E k \in dict_keys(verses.v) : ~int_ok(JStr(k))
                  THEN [raised |-> "ValueError", chapters |-> stored]
             ELSE IF \E k \in dict_keys(verses.v) : dict_at(verses.v, k).t # "str"
                  THEN [raised |-> "AttributeError", chapters |-> stored]
             ELSE LET verse_list == user_verse_list(verses.v, sorted_by_int(dict_key_list(verses.v)))
                  IN  user_parse_chapters(Tail(chapters),
                                          IF verse_list # <<>>
                                          THEN dict_set(stored, py_int(JStr(chapter_num_str)), verse_list)
                                          ELSE stored)

\* one iteration of `for book_name, chapters in data.items()`
user_parse_book(data, book_name, chapters) ==
    LET normalized_name == user_normalize_book_name(book_name) IN
    IF chapters.t # "dict" THEN [raised |-> "AttributeError", bible_data |-> dict_set(data, normalized_name, <<>>)]
    ELSE LET r == user_parse_chapters(chapters.v, <<>>)
         IN  [raised |-> r.raised, bible_data |-> dict_set(data, normalized_name, r.chapters)]

(***************************************************************************)
(* Emission: the version summary and the static code -> name table         *)
(***************************************************************************)
version_names ==
    ("KJV" :> "King James Version")
 @@ ("ESV" :> "English Standard Version")
 @@ ("NIV" :> "New International Version")
 @@ ("NKJV" :> "New King James Version")
 @@ ("NLT" :> "New Living Translation")
 @@ ("NASB" :> "New American Standard Bible")
 @@ ("CSB" :> "Christian Standard Bible")
 @@ ("MSG" :> "The Message")
 @@ ("AMP" :> "Amplified Bible")
 @@ ("NRSV" :> "New Revised Standard Version")

\* variant: the table is looked up with the code as given
get_version_full_name_exact(code) ==
    IF code \in DOMAIN version_names THEN version_names[code] ELSE code

get_version_full_name(code) ==
    IF str_upper(code) \in DOMAIN version_names THEN version_names[str_upper(code)] ELSE code

RECURSIVE sum_chapters(_)
sum_chapters(data) == IF data = <<>> THEN 0 ELSE Len(Head(data)[2]) + sum_chapters(Tail(data))

version_metadata(data, code) ==
    [version |-> code,
     name |-> get_version_full_name(code),
     books |-> Len(data),
     total_chapters |-> sum_chapters(data)]

user_get_version_full_name(code) ==
    IF str_upper(code) \in DOMAIN version_names THEN version_names[str_upper(code)] ELSE code

user_version_metadata(data, code) ==
    [version |-> code,
     name |-> user_get_version_full_name(code),
     books |-> Len(data),
     total_chapters |-> sum_chapters(data)]

\* book_dir = output_path / book_name, relative to output_path: the ids the parsers
\* produce hold no separator and no dot, and joining the empty id gives output_path
\* itself, written "."
book_dir(book_name) == IF book_name = "" THEN "." ELSE book_name

\* chapter_file = book_dir / f"{chapter_num}.json", as <<directory, chapter number>>
chapter_file(book_name, chapter_num) == <<book_dir(book_name), chapter_num>>

\* version.json opened for writing, its write not completed
Truncated == [t |-> "truncated"]

\* the versions list of the batch driver
versions ==
    << <<"c:/Users/usstgc/Downloads/ESV_bible.json", "ESV">>,
       <<"c:/Users/usstgc/Downloads/NLT_bible.json", "NLT">>,
       <<"c:/Users/usstgc/Downloads/NIV_bible.json", "NIV">>,
       <<"c:/Users/usstgc/Downloads/NASB_bible.json", "NASB">> >>

(***************************************************************************)
(* State                                                                   *)
(***************************************************************************)
VARIABLES
    script,       \* "harness", "process_bible_json" or "process_your_bibles"
    pc,           \* position of the script
    fn,           \* harness: the function under call
    arg,          \* harness: its argument
    rets,         \* harness: results of the successive calls, each fed the previous result
    input_file,   \* "missing", "invalid" (not JSON) or "json"
    book,         \* the loop variable of the parser: the current item of the input,
                  \* JNull outside the parser
    nbooks,       \* number of items taken from the input so far
    seen,         \* process_your_bibles: keys of the root object already iterated
    bible_data,   \* the normalized structure, an ordered dict of ordered dicts
    genesis_doc,  \* history: the items taken are exactly the one of the shape (c) Genesis document
    prev_data,    \* history: bible_data as it was when the current item was taken
    version_code, \* version code given to generate_data_files
    version_json, \* content of version.json, JNull while not written
    book_dirs,    \* directories made for the books in the output directory of the run
                  \* (process_your_bibles: of the version being processed)
    files,        \* chapter artifacts of that directory: <<book directory, chapter>> -> verse list
    bi,           \* generate_data_files: index of the current book
    ci,           \* generate_data_files: index of the current chapter
    total_files,  \* generate_data_files: chapter files written
    truncated,    \* chapter files opened for writing whose write did not complete
    exc,          \* the exception that ended the run (process_your_bibles: the call of
                  \* process_version), "" if none
    exit_status,  \* process_bible_json: exit status, -1 while running
    returned,     \* process_your_bibles: value returned by process_version, "" while running
    vi,           \* process_your_bibles: index in versions of the version being processed
    success_count,\* process_your_bibles: main's count of the versions processed
    results       \* history: the values process_version returned, in call order

fnvars == <<fn, arg, rets>>

invars == <<input_file, book, nbooks, seen>>

outvars == <<version_code, version_json, book_dirs, files, bi, ci, total_files, truncated>>

mainvars == <<vi, success_count, results>>

vars == <<script, pc, fn, arg, rets, input_file, book, nbooks, seen, bible_data, prev_data, genesis_doc,
          version_code, version_json, book_dirs, files, bi, ci, total_files, truncated,
          exc, exit_status, returned, vi, success_count, results>>

NoFiles == [k \in {} |-> <<>>]

IdleRun ==
    /\ input_file = "json"
    /\ book = JNull
    /\ nbooks = 0
    /\ seen = {}
    /\ bible_data = <<>>
    /\ prev_data = <<>>
    /\ genesis_doc = FALSE
    /\ version_code = ""
    /\ version_json = JNull
    /\ book_dirs = {}
    /\ files = NoFiles
    /\ bi = 0
    /\ ci = 0
    /\ total_files = 0
    /\ truncated = {}
    /\ exc = ""
    /\ exit_status = -1
    /\ returned = ""

(***************************************************************************)
(* Function harness: the canonicalizer and the verse cleaner applied to    *)
(* bounded inputs, then re-applied to their own result.                    *)
(***************************************************************************)
RECURSIVE Strs(_, _)
Strs(alphabet, n) ==
    IF n = 0 THEN {""}
    ELSE LET S == Strs(alphabet, n - 1) IN S \cup {s \o c : s \in S, c \in alphabet}

Range(f) == {f[k] : k \in DOMAIN f}

NameAlphabet == {"G", "e", "n", " ", "\t", ".", "_"}

NameInputs ==
    DOMAIN BOOK_NAME_MAP \cup Range(BOOK_NAME_MAP)
    \cup DOMAIN USER_BOOK_NAME_MAP \cup Range(USER_BOOK_NAME_MAP)
    \cup {"1 Samuel", "1samuel", "1 sam", "Foobar", "Song of Solomon", "  1  Sam. "}
    \cup Strs(NameAlphabet, MaxNameLen)

VerseAlphabet == {"1", " ", "\n", "a"}

VerseInputs ==
    {"1  In the   beginning\n"} \cup Strs(VerseAlphabet, MaxVerseLen)

NameFns == {"normalize_book_name", "user_normalize_book_name"}

VerseFns == {"clean_verse_text", "user_clean_verse_text"}

InitFn ==
    /\ script = "harness"
    /\ pc = "call"
    /\ fn \in NameFns \cup VerseFns
    /\ arg \in (IF fn \in NameFns THEN NameInputs ELSE VerseInputs)
    /\ rets = <<>>
    /\ IdleRun
    /\ vi = 0
    /\ success_count = 0
    /\ results = <<>>

NextArg == IF rets = <<>> THEN arg ELSE rets[Len(rets)]

Call(f, result) ==
    /\ script = "harness"
    /\ fn = f
    /\ Len(rets) < MaxCalls
    /\ rets' = Append(rets, result)
    /\ UNCHANGED <<script, mainvars, genesis_doc, prev_data, pc, fn, arg, invars, bible_data, outvars, exc, exit_status, returned>>

CallNormalize == Call("normalize_book_name", normalize_book_name(NextArg))

CallUserNormalize == Call("user_normalize_book_name", user_normalize_book_name(NextArg))

CallClean == Call("clean_verse_text", clean_verse_text(NextArg))

CallUserClean == Call("user_clean_verse_text", user_clean_verse_text(NextArg))

(***************************************************************************)
(* Inputs of process_bible_json.py: the items of the books sequence        *)
(***************************************************************************)
RECURSIVE SeqsUpTo(_, _)
SeqsUpTo(S, n) ==
    IF n = 0 THEN {<<>>}
    ELSE LET T == SeqsUpTo(S, n - 1) IN T \cup {Append(t, x) : t \in T, x \in S}

GenesisVerse == "In the beginning God created the heavens and the earth."

NameFields ==
    { << <<"book", JStr("Genesis")>> >>,
      << <<"name", JStr("Gen.")>> >>,
      << <<"bookName", JStr("Exodus")>> >>,
      <<>> }

ChapterNumberFields ==
    { << <<"chapter", JInt(1)>> >>,
      << <<"number", JStr("2")>> >>,
      <<>> }

VersesFields ==
    { << <<"verses", JList(<<JStr("1  In the   beginning\n"), JStr("")>>)>> >>,
      << <<"verses", JList(<<JStr("   ")>>)>> >> }

ChapterEntries == {JDict(n \o v) : n \in ChapterNumberFields, v \in VersesFields}

\* the one book of the shape (c) document {"Genesis": {"1": {"1": GenesisVerse}}}
ShapeCBook == JDict(<< <<"1", JDict(<< <<"1", JStr(GenesisVerse)>> >>)>> >>)

OddBookEntries ==
    { ShapeCBook,
      JStr("Genesis"),
      JDict(<< <<"book", JStr("")>>, <<"chapters", JList(<<>>)>> >>),
      JDict(<< <<"book", JInt(1)>> >>),
      JDict(<< <<"book", JStr(".")>>,
               <<"chapters", JList(<< JDict(<< <<"chapter", JInt(1)>>, <<"verses", JList(<<JStr("a")>>)>> >>) >>)>> >>),
      JDict(<< <<"book", JStr("Foobar")>>,
               <<"chapter", JDict(<< <<"id", JStr("7")>>, <<"verse", JStr("7 a")>> >>)>> >>),
      JDict(<< <<"book", JStr("Genesis")>>,
               <<"chapters", JList(<< JDict(<< <<"id", JStr("one")>> >>) >>)>> >>),
      JDict(<< <<"book", JStr("Genesis")>>,
               <<"chapters", JList(<< JDict(<< <<"id", JInt(3)>>, <<"verses", JList(<<JInt(5)>>)>> >>) >>)>> >>) }

BookEntries ==
    {JDict(n \o << <<"chapters", JList(cs)>> >>) :
        n \in NameFields, cs \in SeqsUpTo(ChapterEntries, MaxChapters)}
    \cup OddBookEntries

VersionCodes == {"ESV", "kjv", "XYZ"}

(***************************************************************************)
(* process_bible_json.py : main                                            *)
(***************************************************************************)
InitRun ==
    /\ fn = ""
    /\ arg = ""
    /\ rets = <<>>
    /\ input_file \in {"missing", "invalid", "json"}
    /\ book = JNull
    /\ nbooks = 0
    /\ seen = {}
    /\ bible_data = <<>>
    /\ prev_data = <<>>
    /\ genesis_doc = FALSE
    /\ version_code = ""
    /\ version_json = JNull
    /\ book_dirs = {}
    /\ files = NoFiles
    /\ bi = 0
    /\ ci = 0
    /\ total_files = 0
    /\ truncated = {}
    /\ exc = ""
    /\ exit_status = -1
    /\ returned = ""

InitBibleJson ==
    /\ script = "process_bible_json"
    /\ pc = "main"
    /\ InitRun
    /\ vi = 0
    /\ success_count = 0
    /\ results = <<>>

\* variant: the error is reported and the command ends normally
Abort_exits_zero(e) ==
    /\ exc' = e
    /\ exit_status' = 0
    /\ pc' = "exit"

\* except Exception as e: ... sys.exit(1)
Abort(e) ==
    /\ exc' = e
    /\ exit_status' = 1
    /\ pc' = "exit"

\* if not os.path.exists(args.input_file): sys.exit(1)
Main ==
    /\ script = "process_bible_json"
    /\ pc = "main"
    /\ IF input_file = "missing"
       THEN exit_status' = 1 /\ pc' = "exit"
       ELSE exit_status' = exit_status /\ pc' = "parse"
    /\ UNCHANGED <<script, mainvars, genesis_doc, prev_data, fnvars, invars, bible_data, outvars, exc, returned>>

\* json.load and the detection of the root shape
LoadJson ==
    /\ script = "process_bible_json"
    /\ pc = "parse"
    /\ \/ /\ input_file = "invalid"
          /\ Abort("JSONDecodeError")
       \/ /\ input_file = "json"
          /\ \E root \in {"list", "books", "bible", "values", "scalar"} :
                IF root = "scalar"
                THEN Abort("ValueError")
                ELSE pc' = "for_book" /\ UNCHANGED <<exc, exit_status>>
    /\ UNCHANGED <<script, mainvars, genesis_doc, prev_data, fnvars, invars, bible_data, outvars, returned>>

\* for book in books: the next item
NextBook ==
    /\ script = "process_bible_json"
    /\ pc = "for_book"
    /\ nbooks < MaxBooks
    /\ \E b \in BookEntries : book' = b
    /\ nbooks' = nbooks + 1
    /\ pc' = "book"
    /\ prev_data' = bible_data
    /\ genesis_doc' = (nbooks = 0 /\ book' = ShapeCBook)
    /\ UNCHANGED <<script, mainvars, fnvars, input_file, seen, bible_data, outvars, exc, exit_status, returned>>

\* the body of the loop over the books
ParseBook ==
    /\ script = "process_bible_json"
    /\ pc = "book"
    /\ LET r == parse_book(bible_data, book) IN
        /\ bible_data' = r.bible_data
        /\ IF r.raised # ""
           THEN Abort(r.raised)
           ELSE pc' = "for_book" /\ UNCHANGED <<exc, exit_status>>
    /\ UNCHANGED <<script, mainvars, genesis_doc, prev_data, fnvars, invars, outvars, returned>>

\* the books are exhausted: return bible_data, enter generate_data_files
EndBooks ==
    /\ script = "process_bible_json"
    /\ pc = "for_book"
    /\ pc' = "generate"
    /\ book' = JNull
    /\ prev_data' = <<>>
    /\ UNCHANGED <<script, mainvars, genesis_doc, fnvars, input_file, nbooks, seen, bible_data, outvars,
                   exc, exit_status, returned>>

(***************************************************************************)
(* process_bible_json.py : generate_data_files                             *)
(***************************************************************************)
\* variant: version.json is not written ahead of the chapter files
WriteVersionMetadata_deferred ==
    /\ script = "process_bible_json"
    /\ pc = "generate"
    /\ \E code \in VersionCodes : version_code' = code
    /\ version_json' = JNull
    /\ total_files' = 0
    /\ bi' = 1
    /\ pc' = "for_book_dir"
    /\ UNCHANGED <<script, mainvars, genesis_doc, prev_data, fnvars, invars, bible_data, book_dirs, files, ci,
                   truncated, exc, exit_status, returned>>

\* output_path.mkdir, version.json; the version code is the --version argument,
\* first used here
WriteVersionMetadata ==
    /\ script = "process_bible_json"
    /\ pc = "generate"
    /\ \E code \in VersionCodes :
          /\ version_code' = code
          /\ version_json' = version_metadata(bible_data, code)
    /\ total_files' = 0
    /\ bi' = 1
    /\ pc' = "for_book_dir"
    /\ UNCHANGED <<script, mainvars, genesis_doc, prev_data, fnvars, invars, bible_data, book_dirs, files, ci,
                   truncated, exc, exit_status, returned>>

\* for book_name, chapters in bible_data.items(): book_dir.mkdir
MakeBookDir ==
    /\ script = "process_bible_json"
    /\ pc = "for_book_dir"
    /\ IF bi <= Len(bible_data)
       THEN /\ book_dirs' = book_dirs \cup {book_dir(bible_data[bi][1])}
            /\ ci' = 1
            /\ pc' = "for_chapter"
            /\ UNCHANGED exit_status
       ELSE /\ exit_status' = 0
            /\ pc' = "exit"
            /\ UNCHANGED <<book_dirs, ci>>
    /\ UNCHANGED <<script, mainvars, genesis_doc, prev_data, fnvars, invars, bible_data, version_code, version_json, files, bi,
                   total_files, truncated, exc, returned>>

\* for chapter_num, verses in chapters.items(): json.dump(verses, f)
WriteChapterFile ==
    /\ script = "process_bible_json"
    /\ pc = "for_chapter"
    /\ LET book_name == bible_data[bi][1]
           chapters == bible_data[bi][2]
       IN  IF ci <= Len(chapters)
           THEN /\ files' = (chapter_file(book_name, chapters[ci][1]) :> chapters[ci][2]) @@ files
                /\ total_files' = total_files + 1
                /\ ci' = ci + 1
                /\ UNCHANGED <<bi, pc>>
           ELSE /\ bi' = bi + 1
                /\ pc' = "for_book_dir"
                /\ UNCHANGED <<files, total_files, ci>>
    /\ UNCHANGED <<script, mainvars, genesis_doc, prev_data, fnvars, invars, bible_data, version_code, version_json, book_dirs,
                   truncated, exc, exit_status, returned>>

\* the effect on the output directory of a step of generate_data_files that raises
\* OSError: a mkdir creates nothing; open(.., 'w') either raises and creates nothing, or
\* has created the file when json.dump raises
FailedStep(at_version, at_book_dir, at_chapter) ==
    /\ \/ /\ pc = at_version
          /\ version_json' \in {JNull, Truncated}
          /\ truncated' = truncated
       \/ /\ pc = at_book_dir
          /\ bi <= Len(bible_data)
          /\ UNCHANGED <<version_json, truncated>>
       \/ /\ pc = at_chapter
          /\ ci <= Len(bible_data[bi][2])
          /\ version_json' = version_json
          /\ \E created \in BOOLEAN :
                truncated' = IF created
                             THEN truncated \cup {chapter_file(bible_data[bi][1],
                                                               bible_data[bi][2][ci][1])}
                             ELSE truncated
    /\ UNCHANGED <<version_code, book_dirs, files, bi, ci, total_files>>

\* a mkdir or a write of generate_data_files raises OSError
WriteFails ==
    /\ script = "process_bible_json"
    /\ pc \in {"generate", "for_book_dir", "for_chapter"}
    /\ FailedStep("generate", "for_book_dir", "for_chapter")
    /\ Abort("OSError")
    /\ UNCHANGED <<script, mainvars, genesis_doc, prev_data, fnvars, invars, bible_data, returned>>

NextBibleJson ==
    Main \/ LoadJson \/ NextBook \/ ParseBook \/ EndBooks
    \/ WriteVersionMetadata \/ MakeBookDir \/ WriteChapterFile \/ WriteFails

(***************************************************************************)
(* Inputs of process_your_bibles.py: the items of the root object          *)
(***************************************************************************)
UserBookNames == {"Genesis", "GENESIS", "Exodus"}

ChapterKeys == {"1", "2"}

Permutations3(a, b, c) ==
    { <<a, b, c>>, <<a, c, b>>, <<b, a, c>>, <<b, c, a>>, <<c, a, b>>, <<c, b, a>> }

UserVerseDicts ==
    {JDict(p) : p \in Permutations3(<<"1", JStr("a")>>, <<"2", JStr("b")>>, <<"10", JStr("j")>>)}
    \cup { JDict(<< <<"2", JStr("b\nc")>>, <<"1", JStr(" ")>> >>) }

\* the chapter objects: distinct chapter keys; the first chapter holds any of the verse
\* objects, the chapters after it the one whose keys come in numeric order
UserChapterDicts ==
    {JDict(cs) : cs \in {x \in SeqsUpTo(ChapterKeys \X UserVerseDicts, MaxChapters) :
                            /\ \A i, j \in DOMAIN x : i # j => x[i][1] # x[j][1]
                            /\ \A i \in DOMAIN x :
                                  i > 1 => dict_key_list(x[i][2].v) = <<"1", "2", "10">>}}

\* the shape (c) document {"Genesis": {"1": {"1": GenesisVerse}}}
ShapeCItem == <<"Genesis", ShapeCBook>>

OddUserItems ==
    { ShapeCItem,
      <<"Exodus", JDict(<< <<"1", JDict(<< <<"1", JStr("  ")>>, <<"2", JStr("\n")>> >>)>> >>)>>,
      <<".", JDict(<< <<"1", JDict(<< <<"1", JStr("a")>> >>)>> >>)>>,
      <<"Genesis", JList(<<>>)>>,
      <<"Genesis", JDict(<< <<"one", JDict(<<>>)>> >>)>>,
      <<"Genesis", JDict(<< <<"1", JList(<<JStr("a")>>)>> >>)>>,
      <<"Genesis", JDict(<< <<"1", JDict(<< <<"1", JInt(5)>> >>)>> >>)>>,
      <<"Genesis", JDict(<< <<"1", JDict(<< <<"v1", JStr("a")>> >>)>> >>)>> }

\* the items a root object can hold besides those of the given keys
UserItemsWithout(keys) ==
    ((UserBookNames \ keys) \X UserChapterDicts) \cup {x \in OddUserItems : x[1] \notin keys}

(***************************************************************************)
(* process_your_bibles.py : main and process_version                      *)
(***************************************************************************)
\* main has entered its loop: success_count = 0, process_version is called for the
\* first entry of versions
InitYourBibles ==
    /\ script = "process_your_bibles"
    /\ pc = "process_version"
    /\ InitRun
    /\ vi = 1
    /\ success_count = 0
    /\ results = <<>>

\* except Exception as e: ... return False
UserAbort(e) ==
    /\ exc' = e
    /\ returned' = "False"
    /\ pc' = "returned"

\* if not os.path.exists(input_file): return False
ProcessVersion ==
    /\ script = "process_your_bibles"
    /\ pc = "process_version"
    /\ IF input_file = "missing"
       THEN returned' = "False" /\ pc' = "returned"
       ELSE returned' = returned /\ pc' = "user_parse"
    /\ UNCHANGED <<script, mainvars, genesis_doc, prev_data, fnvars, invars, bible_data, outvars, exc, exit_status>>

\* json.load; data.items() needs the root to be an object
UserLoadJson ==
    /\ script = "process_your_bibles"
    /\ pc = "user_parse"
    /\ \/ /\ input_file = "invalid"
          /\ UserAbort("JSONDecodeError")
       \/ /\ input_file = "json"
          /\ \E root \in {"dict", "list", "scalar"} :
                IF root # "dict"
                THEN UserAbort("AttributeError")
                ELSE pc' = "user_for_book" /\ UNCHANGED <<exc, returned>>
    /\ UNCHANGED <<script, mainvars, genesis_doc, prev_data, fnvars, invars, bible_data, outvars, exit_status>>

\* for book_name, chapters in data.items(): the next item
UserNextBook ==
    /\ script = "process_your_bibles"
    /\ pc = "user_for_book"
    /\ nbooks < MaxBooks
    /\ \E item \in UserItemsWithout(seen) :
          /\ book' = item
          /\ seen' = seen \cup {item[1]}
    /\ nbooks' = nbooks + 1
    /\ pc' = "user_book"
    /\ prev_data' = bible_data
    /\ genesis_doc' = (nbooks = 0 /\ book' = ShapeCItem)
    /\ UNCHANGED <<script, mainvars, fnvars, input_file, bible_data, outvars, exc, exit_status, returned>>

\* the body of the loop over the books
UserParseBook ==
    /\ script = "process_your_bibles"
    /\ pc = "user_book"
    /\ LET r == user_parse_book(bible_data, book[1], book[2]) IN
        /\ bible_data' = r.bible_data
        /\ IF r.raised # ""
           THEN UserAbort(r.raised)
           ELSE pc' = "user_for_book" /\ UNCHANGED <<exc, returned>>
    /\ UNCHANGED <<script, mainvars, genesis_doc, prev_data, fnvars, invars, outvars, exit_status>>

\* the items are exhausted: return bible_data, validate, enter generate_data_files
UserEndBooks ==
    /\ script = "process_your_bibles"
    /\ pc = "user_for_book"
    /\ pc' = "user_generate"
    /\ book' = JNull
    /\ seen' = {}
    /\ prev_data' = <<>>
    /\ UNCHANGED <<script, mainvars, genesis_doc, fnvars, input_file, nbooks, bible_data, outvars,
                   exc, exit_status, returned>>

(***************************************************************************)
(* process_your_bibles.py : generate_data_files                            *)
(***************************************************************************)
\* output_path.mkdir, version.json; the version code is that of the entry of versions
\* being processed
UserWriteVersionMetadata ==
    /\ script = "process_your_bibles"
    /\ pc = "user_generate"
    /\ version_code' = versions[vi][2]
    /\ version_json' = user_version_metadata(bible_data, versions[vi][2])
    /\ total_files' = 0
    /\ bi' = 1
    /\ pc' = "user_for_book_dir"
    /\ UNCHANGED <<script, mainvars, genesis_doc, prev_data, fnvars, invars, bible_data, book_dirs, files, ci,
                   truncated, exc, exit_status, returned>>

UserMakeBookDir ==
    /\ script = "process_your_bibles"
    /\ pc = "user_for_book_dir"
    /\ IF bi <= Len(bible_data)
       THEN /\ book_dirs' = book_dirs \cup {book_dir(bible_data[bi][1])}
            /\ ci' = 1
            /\ pc' = "user_for_chapter"
            /\ UNCHANGED returned
       ELSE /\ returned' = "True"
            /\ pc' = "returned"
            /\ UNCHANGED <<book_dirs, ci>>
    /\ UNCHANGED <<script, mainvars, genesis_doc, prev_data, fnvars, invars, bible_data, version_code, version_json, files, bi,
                   total_files, truncated, exc, exit_status>>

UserWriteChapterFile ==
    /\ script = "process_your_bibles"
    /\ pc = "user_for_chapter"
    /\ LET book_name == bible_data[bi][1]
           chapters == bible_data[bi][2]
       IN  IF ci <= Len(chapters)
           THEN /\ files' = (chapter_file(book_name, chapters[ci][1]) :> chapters[ci][2]) @@ files
                /\ total_files' = total_files + 1
                /\ ci' = ci + 1
                /\ UNCHANGED <<bi, pc>>
           ELSE /\ bi' = bi + 1
                /\ pc' = "user_for_book_dir"
                /\ UNCHANGED <<files, total_files, ci>>
    /\ UNCHANGED <<script, mainvars, genesis_doc, prev_data, fnvars, invars, bible_data, version_code, version_json, book_dirs,
                   truncated, exc, exit_status, returned>>

\* a mkdir or a write of generate_data_files raises OSError
UserWriteFails ==
    /\ script = "process_your_bibles"
    /\ pc \in {"user_generate", "user_for_book_dir", "user_for_chapter"}
    /\ FailedStep("user_generate", "user_for_book_dir", "user_for_chapter")
    /\ UserAbort("OSError")
    /\ UNCHANGED <<script, mainvars, genesis_doc, prev_data, fnvars, invars, bible_data, exit_status>>

\* main calls process_version for the next entry of versions: another input file,
\* fresh locals, and another output directory ../data/<code>, which starts empty
EnterProcessVersion ==
    /\ pc' = "process_version"
    /\ input_file' \in {"missing", "invalid", "json"}
    /\ book' = JNull
    /\ nbooks' = 0
    /\ seen' = {}
    /\ bible_data' = <<>>
    /\ prev_data' = <<>>
    /\ genesis_doc' = FALSE
    /\ version_code' = ""
    /\ version_json' = JNull
    /\ book_dirs' = {}
    /\ files' = NoFiles
    /\ bi' = 0
    /\ ci' = 0
    /\ total_files' = 0
    /\ truncated' = {}
    /\ exc' = ""
    /\ returned' = ""
    /\ UNCHANGED <<fnvars, exit_status>>

\* variant: the loop of main is left at the first version that fails
NextVersion_stops_at_failure ==
    /\ script = "process_your_bibles"
    /\ pc = "returned"
    /\ success_count' = IF returned = "True" THEN success_count + 1 ELSE success_count
    /\ results' = Append(results, returned)
    /\ vi' = vi + 1
    /\ IF vi < Len(versions) /\ returned = "True"
       THEN EnterProcessVersion
       ELSE /\ pc' = "exit"
            /\ exit_status' = IF returned = "True" THEN 0 ELSE 1
            /\ UNCHANGED <<genesis_doc, prev_data, fnvars, invars, bible_data, outvars, exc, returned>>
    /\ UNCHANGED script

\* main: `if process_version(input_file, version_code): success_count += 1`, then the
\* next entry of versions, or the end of the loop and of the process
NextVersion ==
    /\ script = "process_your_bibles"
    /\ pc = "returned"
    /\ success_count' = IF returned = "True" THEN success_count + 1 ELSE success_count
    /\ results' = Append(results, returned)
    /\ vi' = vi + 1
    /\ IF vi < Len(versions)
       THEN EnterProcessVersion
       ELSE /\ pc' = "exit"
            /\ exit_status' = 0
            /\ UNCHANGED <<genesis_doc, prev_data, fnvars, invars, bible_data, outvars, exc, returned>>
    /\ UNCHANGED script

NextYourBibles ==
    ProcessVersion \/ UserLoadJson \/ UserNextBook \/ UserParseBook \/ UserEndBooks
    \/ UserWriteVersionMetadata \/ UserMakeBookDir \/ UserWriteChapterFile \/ UserWriteFails
    \/ NextVersion

NextFn == CallNormalize \/ CallUserNormalize \/ CallClean \/ CallUserClean

Init == InitFn \/ InitBibleJson \/ InitYourBibles

Next == NextFn \/ NextBibleJson \/ NextYourBibles

Spec == Init /\ [][Next]_vars

(***************************************************************************)
(* Properties                                                              *)
(***************************************************************************)
GenesisFiles == (<<"genesis", 1>> :> <<GenesisVerse>>)

EsvSummary(books, chapters) ==
    [version |-> "ESV", name |-> "English Standard Version", books |-> books,
     total_chapters |-> chapters]

\* a completed run of the script on the shape (c) Genesis document, under version code ESV
RanOnGenesis(s) ==
    /\ script = s
    /\ genesis_doc
    /\ version_code = "ESV"
    /\ \/ pc = "exit" /\ exit_status = 0
       \/ pc = "returned" /\ returned = "True"

UserParsed ==
    /\ script = "process_your_bibles"
    /\ pc = "user_for_book"
    /\ nbooks >= 1

\* the verse list stored for a chapter key of the item just parsed, <<>> if none
UserStored(chapter_key) ==
    LET chapters == dict_at(bible_data, user_normalize_book_name(book[1]))
        n == DigitsValue(chapter_key)
    IN  IF n \in dict_keys(chapters) THEN dict_at(chapters, n) ELSE <<>>

\* C2: for a shape (c) chapter, parse_user_bible_json stores the verses in ascending
\* numeric order of the verse-number keys, whatever the key order of the input:
\* any order of {"10": "j", "2": "b", "1": "a"} yields <<"a", "b", "j">>.
C2_NumericVerseOrder ==
    UserParsed =>
        \A c \in {x \in DOMAIN book[2].v : book[2].v[x][2].t = "dict"} :
            LET verses == book[2].v[c][2].v
                stored == UserStored(book[2].v[c][1])
            IN  /\ \A i, j \in DOMAIN stored :
                      i < j => \E k1, k2 \in dict_keys(verses) :
                                  /\ DigitsValue(k1) < DigitsValue(k2)
                                  /\ user_clean_verse_text(dict_at(verses, k1).v) = stored[i]
                                  /\ user_clean_verse_text(dict_at(verses, k2).v) = stored[j]
                /\ dict_keys(verses) = {"1", "2", "10"} => stored = <<"a", "b", "j">>

C2_Witness ==
    /\ UserParsed
    /\ book[2].v # <<>>
    /\ book[2].v[1][2] \in UserVerseDicts
    /\ dict_key_list(book[2].v[1][2].v) = <<"10", "2", "1">>
    /\ UserStored(book[2].v[1][1]) = <<"a", "b", "j">>

\* every verse list held in the normalized structure
StoredVerseLists ==
    UNION {{bible_data[b][2][c][2] : c \in DOMAIN bible_data[b][2]} : b \in DOMAIN bible_data}

\* C3: in each of the two parsers a chapter whose verses all clean to the empty string
\* is not stored (so no artifact is written for it), and no stored verse list holds an
\* empty string.
C3_NoEmptyVerseStored ==
    /\ \A l \in StoredVerseLists : l # <<>> /\ \A i \in DOMAIN l : l[i] # ""
    /\ \A f \in DOMAIN files : \E i \in DOMAIN files[f] : files[f][i] # ""

\* the harness has called function f at least n times
Called(f, n) == script = "harness" /\ fn = f /\ Len(rets) >= n

\* C4: verse cleanup is idempotent in each of the two clean_verse_text implementations:
\* cleaning an already cleaned verse returns it unchanged.
C4_CleanIdempotent ==
    \A f \in VerseFns : Called(f, 2) => \A i \in 2..Len(rets) : rets[i] = rets[1]

\* C5: both implementations of normalize_book_name return 1_samuel for "1 Samuel",
\* "1samuel" and "1 sam", and process_your_bibles.py returns for every alias of the
\* table of process_bible_json.py the canonical id that table gives.
C5_SameCanonicalId ==
    /\ \A f \in NameFns :
          (Called(f, 1) /\ arg \in {"1 Samuel", "1samuel", "1 sam"}) => rets[1] = "1_samuel"
    /\ (Called("user_normalize_book_name", 1) /\ arg \in DOMAIN BOOK_NAME_MAP) =>
          rets[1] = BOOK_NAME_MAP[arg]

CanonicalIds == Range(BOOK_NAME_MAP) \cup Range(USER_BOOK_NAME_MAP)

AliasesOf(f) ==
    IF f = "normalize_book_name" THEN DOMAIN BOOK_NAME_MAP ELSE DOMAIN USER_BOOK_NAME_MAP

\* C6: canonicalization is idempotent on the alias table: normalizing the canonical id
\* of an alias returns it again, and every canonical id of the table, the underscored
\* ones included, is returned unchanged.
C6_NormalizeIdempotent ==
    \A f \in NameFns :
        /\ (Called(f, 2) /\ arg \in AliasesOf(f)) =>
              /\ rets[1] \in CanonicalIds
              /\ \A i \in 2..Len(rets) : rets[i] = rets[1]
        /\ (Called(f, 1) /\ arg \in CanonicalIds) => rets[1] = arg

C6_Witness ==
    /\ Called("normalize_book_name", 2)
    /\ arg = "1 sam"
    /\ rets[1] = "1_samuel"
    /\ rets[2] = "1_samuel"

RECURSIVE LettersAndDigits(_)
LettersAndDigits(s) ==
    IF s = "" THEN ""
    ELSE (IF isword(Head(s)) /\ Head(s) # "_" THEN Head(s) ELSE "") \o LettersAndDigits(Tail(s))

\* C7: a name that matches no alias is not rejected: the result is its lowercased
\* letters and digits, with underscores where it had whitespace ("Foobar" yields
\* foobar); no result of normalize_book_name contains a space.
C7_UnknownNameFallback ==
    \A f \in NameFns :
        Called(f, 1) =>
            /\ \A i \in 1..Len(rets[1]) : ~isspace(CharAt(rets[1], i))
            /\ arg = "Foobar" => rets[1] = "foobar"
            /\ rets[1] \notin CanonicalIds =>
                  /\ \A i \in 1..Len(rets[1]) :
                        isword(CharAt(rets[1], i)) /\ ~Contains(ascii_uppercase, CharAt(rets[1], i))
                  /\ LettersAndDigits(rets[1]) = str_lower(LettersAndDigits(arg))
                  /\ Len(rets[1]) <= Len(arg)

C7_Witness ==
    /\ Called("normalize_book_name", 1)
    /\ arg = "G. e"
    /\ rets[1] = "g_e"

\* the item just parsed by parse_bible_json, without exception
Parsed ==
    /\ script = "process_bible_json"
    /\ pc = "for_book"
    /\ nbooks >= 1

Nameless(b) == b.t = "dict" /\ ~Truthy(book_name_of(b))

Named(b) == b.t = "dict" /\ Truthy(book_name_of(b)) /\ book_name_of(b).t = "str"

BookId(b) == normalize_book_name(book_name_of(b).v)

Numbered(c) == c.t = "dict" /\ chapter_number(c).t # "null"

\* the chapters of a book item that carry a number and at least one truthy verse
Storable(b) ==
    {i \in DOMAIN book_chapters(b) :
        /\ Numbered(book_chapters(b)[i])
        /\ \E v \in Range(chapter_verses(book_chapters(b)[i])) : Truthy(v)}

NumberAt(b, i) == py_int(chapter_number(book_chapters(b)[i]))

\* the chapters of an item of the root object that hold at least one non-blank verse
UserStorable(item) ==
    {i \in DOMAIN item[2].v :
        /\ item[2].v[i][2].t = "dict"
        /\ \E k \in dict_keys(item[2].v[i][2].v) :
              user_clean_verse_text(dict_at(item[2].v[i][2].v, k).v) # ""}

\* all books but the given one are as they were before the last item
OthersKept(id) ==
    /\ dict_keys(bible_data) = dict_keys(prev_data) \cup {id}
    /\ \A k \in dict_keys(prev_data) \ {id} : dict_at(bible_data, k) = dict_at(prev_data, k)
    /\ \A i, j \in DOMAIN bible_data : i # j => bible_data[i][1] # bible_data[j][1]

\* generate_data_files has returned
GenerateCompleted ==
    \/ script = "process_bible_json" /\ pc = "exit" /\ exit_status = 0
    \/ script = "process_your_bibles" /\ pc = "returned" /\ returned = "True"

\* every chapter artifact is written once: the count of writes is the count of files
WrittenOnce ==
    GenerateCompleted =>
        /\ total_files = Cardinality(DOMAIN files)
        /\ total_files = version_json.total_chapters

\* C8: last write wins per book: after a book entry is parsed the structure holds for
\* its canonical id exactly the chapters of that entry, none of an earlier entry of the
\* same id, the other books being untouched; each (book, chapter) pair is written once.
C8_LastWriteWins ==
    /\ (Parsed /\ Named(book)) =>
          /\ dict_keys(dict_at(bible_data, BookId(book)))
                = {NumberAt(book, i) : i \in Storable(book)}
          /\ OthersKept(BookId(book))
    /\ UserParsed =>
          /\ dict_keys(dict_at(bible_data, user_normalize_book_name(book[1])))
                = {DigitsValue(book[2].v[i][1]) : i \in UserStorable(book)}
          /\ OthersKept(user_normalize_book_name(book[1]))
    /\ WrittenOnce

C8_Witness ==
    /\ Parsed
    /\ Named(book)
    /\ BookId(book) = "genesis"
    /\ "genesis" \in dict_keys(prev_data)
    /\ dict_keys(dict_at(prev_data, "genesis")) = {1, 2}
    /\ dict_keys(dict_at(bible_data, "genesis")) = {2}

ParseErrors == {"AttributeError", "TypeError", "ValueError"}

\* a chapter item on which the loop body raises
BadChapter(c) ==
    \/ c.t # "dict"
    \/ /\ chapter_number(c).t # "null"
       /\ ~int_ok(chapter_number(c)) \/ ~verses_ok(chapter_verses(c))

\* a book item on which the loop body raises
Raises(b) ==
    \/ b.t # "dict"
    \/ /\ Truthy(book_name_of(b))
       /\ \/ book_name_of(b).t # "str"
          \/ \E c \in Range(book_chapters(b)) : BadChapter(c)

\* the chapter artifacts are those of the normalized structure
AllEmitted ==
    /\ DOMAIN files = UNION {{<<book_dir(bible_data[b][1]), bible_data[b][2][c][1]>> :
                                  c \in DOMAIN bible_data[b][2]} : b \in DOMAIN bible_data}
    /\ \A b \in DOMAIN bible_data : \A c \in DOMAIN bible_data[b][2] :
          files[<<book_dir(bible_data[b][1]), bible_data[b][2][c][1]>>] = bible_data[b][2][c][2]

\* C9: in parse_bible_json a book entry without a name and a chapter entry without a
\* number are skipped one by one: the structure built from the other books and chapters
\* is unaffected, the parse does not raise, and the run emits them and exits with 0.
C9_SkipsAreLocal ==
    /\ (Parsed /\ Nameless(book)) => bible_data = prev_data
    /\ (Parsed /\ Named(book)) =>
          \A i \in Storable(book) :
              \E j \in Storable(book) :
                  /\ NumberAt(book, j) = NumberAt(book, i)
                  /\ dict_at(dict_at(bible_data, BookId(book)), NumberAt(book, i))
                        = cleaned_verses(chapter_verses(book_chapters(book)[j]))
    /\ (script = "process_bible_json" /\ nbooks >= 1 /\ exc \in ParseErrors) => Raises(book)
    /\ (script = "process_bible_json" /\ pc = "exit" /\ exc = "" /\ input_file = "json") =>
          exit_status = 0 /\ AllEmitted

C9_Witness ==
    /\ Parsed
    /\ nbooks = 2
    /\ Nameless(book)
    /\ book_chapters(book) # <<>>
    /\ dict_keys(prev_data) = {"exodus"}
    /\ dict_keys(dict_at(bible_data, "exodus")) = {2}

\* C10 (as claimed): process_bible_json.py exits with nonzero status exactly when the
\* input file is missing or does not hold JSON, and with zero for every other input.
C10_Original ==
    (script = "process_bible_json" /\ pc = "exit" /\ exc # "OSError") =>
        (exit_status # 0 <=> input_file \in {"missing", "invalid"})

\* C10 (amended): the command exits with nonzero status when the input file is missing,
\* when it does not hold JSON, and when parsing or writing raises (a root that is neither
\* array nor object, an item on which the loop body raises, a failed write); it exits
\* with zero otherwise, also when books or chapters were skipped.
C10_ExitStatus ==
    /\ (script = "process_bible_json" /\ pc = "exit") =>
          /\ exit_status \in {0, 1}
          /\ exit_status = 1 <=> (input_file = "missing" \/ exc # "")
          /\ input_file = "invalid" => exc = "JSONDecodeError"
          /\ input_file = "missing" => exc = "" /\ version_json = JNull
          /\ (nbooks >= 1 /\ exc \in ParseErrors) => Raises(book)
          /\ exit_status = 0 => AllEmitted
          /\ (nbooks = 0 /\ exc # "") => exc \in {"JSONDecodeError", "ValueError", "OSError"}
    /\ Parsed => ~Raises(book)

C10_Witness ==
    /\ script = "process_bible_json"
    /\ pc = "exit"
    /\ exit_status = 1
    /\ input_file = "json"
    /\ exc = "ValueError"
    /\ nbooks = 2
    /\ prev_data # <<>>

\* the (book, chapter) entries of the normalized structure
StructureEntries ==
    UNION {{<<bible_data[b][1], bible_data[b][2][c][1]>> : c \in DOMAIN bible_data[b][2]} :
              b \in DOMAIN bible_data}

\* C11: when generate_data_files has completed, total_chapters of version.json, the
\* number of chapter artifacts in the output directory and the returned file count are
\* equal; each (book, chapter) entry of the structure has its own artifact holding the
\* entry's verse list in order and there is no other artifact; the name field is the
\* table's name of the upper-cased version code, or the code itself when the table
\* does not have it.
C11_EmissionMatchesStructure ==
    GenerateCompleted =>
        /\ version_json.total_chapters = Cardinality(DOMAIN files)
        /\ total_files = Cardinality(DOMAIN files)
        /\ Cardinality(StructureEntries) = Cardinality(DOMAIN files)
        /\ DOMAIN files = {chapter_file(e[1], e[2]) : e \in StructureEntries}
        /\ \A e \in StructureEntries :
              files[chapter_file(e[1], e[2])] = dict_at(dict_at(bible_data, e[1]), e[2])
        /\ truncated = {}
        /\ version_json.version = version_code
        /\ version_json.books = Len(bible_data)
        /\ version_json.name =
              CASE str_upper(version_code) = "ESV" -> "English Standard Version"
                [] str_upper(version_code) = "KJV" -> "King James Version"
                [] str_upper(version_code) = "NIV" -> "New International Version"
                [] str_upper(version_code) = "NLT" -> "New Living Translation"
                [] str_upper(version_code) = "NASB" -> "New American Standard Bible"
                [] OTHER -> version_code

C11_Witness ==
    /\ GenerateCompleted
    /\ script = "process_bible_json"
    /\ version_code = "kjv"
    /\ version_json.name = "King James Version"
    /\ Cardinality(DOMAIN files) = 3
    /\ <<".", 1>> \in DOMAIN files

\* the books of the structure that hold no chapter
EmptyBooks == {b \in DOMAIN bible_data : bible_data[b][2] = <<>>}

\* the directories that hold at least one chapter artifact
DirsWithArtifacts == {f[1] : f \in DOMAIN files}

\* C12: a named book entry none of whose chapters is stored stays in the normalized
\* structure with an empty chapter map, in both parsers; when generate_data_files has
\* completed such a book is counted in books of version.json and its directory has
\* been made and holds no chapter artifact, so that books is the number of books with
\* an artifact plus the number of books without a chapter.
C12_EmptyBookKept ==
    /\ (Parsed /\ Named(book) /\ Storable(book) = {}) =>
          /\ BookId(book) \in dict_keys(bible_data)
          /\ dict_at(bible_data, BookId(book)) = <<>>
    /\ (UserParsed /\ UserStorable(book) = {}) =>
          /\ user_normalize_book_name(book[1]) \in dict_keys(bible_data)
          /\ dict_at(bible_data, user_normalize_book_name(book[1])) = <<>>
    /\ GenerateCompleted =>
          /\ version_json.books = Len(bible_data)
          /\ \A b \in EmptyBooks :
                /\ book_dir(bible_data[b][1]) \in book_dirs
                /\ book_dir(bible_data[b][1]) \notin DirsWithArtifacts
          /\ version_json.books = Cardinality(DirsWithArtifacts) + Cardinality(EmptyBooks)

C12_Witness ==
    /\ GenerateCompleted
    /\ script = "process_bible_json"
    /\ version_json.books = 2
    /\ Cardinality(EmptyBooks) = 1
    /\ Cardinality(DirsWithArtifacts) = 1
    /\ Cardinality(book_dirs) = 2

\* version.json is completely written
SummaryWritten == version_json \notin {JNull, Truncated}

\* generate_data_files has raised after version.json was written, leaving an entry of
\* the structure without its artifact
FailedPartWay ==
    /\ exc = "OSError"
    /\ SummaryWritten
    /\ \E e \in StructureEntries : chapter_file(e[1], e[2]) \notin DOMAIN files

\* C13: version.json is written before any chapter artifact: in every state in which a
\* chapter file of the run exists, complete or not, version.json is completely written
\* and holds the final books and total_chapters, those of the whole structure; hence
\* total_chapters is never less than the number of chapter artifacts, and when emission
\* fails part-way, an entry being left without its artifact, it is larger.
C13_SummaryFirst ==
    /\ (files # NoFiles \/ truncated # {}) =>
          /\ SummaryWritten
          /\ version_json.books = Len(bible_data)
          /\ version_json.total_chapters = sum_chapters(bible_data)
    /\ SummaryWritten => version_json.total_chapters >= Cardinality(DOMAIN files)
    /\ FailedPartWay => version_json.total_chapters > Cardinality(DOMAIN files)

C13_Witness ==
    /\ FailedPartWay
    /\ Cardinality(DOMAIN files) = 1
    /\ truncated # {}
    /\ version_json.books = 2
    /\ version_json.total_chapters = 3

\* the number of calls of process_version that returned True
ReturnedTrue == Cardinality({i \in DOMAIN results : results[i] = "True"})

\* the call of process_version in progress has failed: the input file is missing, or
\* an exception was raised while parsing or emitting
VersionFailed == input_file = "missing" \/ exc # ""

\* C14: in the batch driver of process_your_bibles.py the versions are processed one
\* after another in list order; a version that fails (missing input file, or an
\* exception while parsing or emitting) makes process_version return False and nothing
\* else: the process goes on to every later version and ends normally after the last,
\* and success_count is the number of calls that returned True.
C14_BatchContinues ==
    script = "process_your_bibles" =>
        /\ Len(results) = vi - 1
        /\ success_count = ReturnedTrue
        /\ pc # "exit" => vi \in DOMAIN versions
        /\ (pc # "exit" /\ version_code # "") => version_code = versions[vi][2]
        /\ VersionFailed => pc \in {"process_version", "returned", "exit"}
        /\ pc = "returned" => returned = IF VersionFailed THEN "False" ELSE "True"
        /\ pc = "exit" =>
              /\ exit_status = 0
              /\ Len(results) = Len(versions)
              /\ returned = results[Len(versions)]

C14_Witness ==
    /\ script = "process_your_bibles"
    /\ pc = "exit"
    /\ results = <<"False", "True", "False", "True">>
    /\ success_count = 2
    /\ files # NoFiles

====
